---- MODULE Spec2Model ----
(***************************************************************************)
(* CPU scheduling simulator (parta.c, parta_main.c): a table of process    *)
(* control blocks, the time-step function run_proc, the round-robin        *)
(* selector rr_next and the two drivers fcfs_run and rr_run.               *)
(*                                                                         *)
(* The table is a function from 0..plen-1 to records, as the C array is.   *)
(* A driver run advances one loop iteration per step; alg = "api" is a     *)
(* caller that applies run_proc and rr_next directly to the table.         *)
(* The values stay far below 2^31, so C int arithmetic is exact here.      *)
(***************************************************************************)
EXTENDS Integers, Sequences, FiniteSets, TLC

VARIABLES bursts, quantum, alg, procs, pc, i, current, total_time, ret,
          slices, call, ncalls, out

vars == <<bursts, quantum, alg, procs, pc, i, current, total_time, ret,
          slices, call, ncalls, out>>

\* ---- bounds of the model ------------------------------------------------
MaxLen == 3          \* longest burst list
MaxBurst == 2        \* largest burst of the enumerated lists
MaxQuantum == 4      \* largest round-robin quantum
MaxAmount == 3       \* largest amount a direct run_proc call passes
MaxCalls == 2        \* number of direct calls a caller makes on one table

\* The burst lists of the documented scenarios ([5, 3, 8] and [7]).
Scenario12 == [k \in 0..2 |-> IF k = 0 THEN 5 ELSE IF k = 1 THEN 3 ELSE 8]
Scenario3 == [k \in 0..0 |-> 7]

\* atoi yields any int, negative ones included.
BurstVals == (0 - 1)..MaxBurst
BurstLists == UNION {[0..(n - 1) -> BurstVals] : n \in 1..MaxLen}
                 \cup {Scenario12, Scenario3}

Algs == {"fcfs", "rr", "api"}

\* ---- helpers --------------------------------------------------------------
NULL == [k \in {} |-> 0]

Len0(f) == Cardinality(DOMAIN f)

RECURSIVE SumTo(_, _)
\* f[0] + ... + f[n-1]
SumTo(f, n) == IF n <= 0 THEN 0 ELSE SumTo(f, n - 1) + f[n - 1]

SumBursts(f) == SumTo(f, Len0(f))

BurstLeft(p) == [k \in DOMAIN p |-> p[k].burst_left]
Waits(p) == [k \in DOMAIN p |-> p[k].wait]

\* C's % truncates toward zero.
CRem(a, b) == IF a >= 0 THEN a % b ELSE 0 - ((0 - a) % b)

\* ---- parta.c --------------------------------------------------------------
init_procs(b, blen) ==
    IF blen <= 0 \/ DOMAIN b = {} THEN NULL
    ELSE [k \in 0..(blen - 1) |-> [pid |-> k, burst_left |-> b[k], wait |-> 0]]

\* run_proc variant: every other record waits, finished ones too.
run_proc_WaitAll(p, plen, cur, amount) ==
    IF DOMAIN p = {} \/ plen <= 0 THEN p
    ELSE IF cur < 0 \/ cur >= plen THEN p
    ELSE IF amount <= 0 THEN p
    ELSE LET available == p[cur].burst_left
         IN IF available <= 0 THEN p
            ELSE LET run_time == IF available < amount THEN available ELSE amount
                 IN [k \in DOMAIN p |->
                       IF k = cur
                       THEN [p[k] EXCEPT !.burst_left = @ - run_time]
                       ELSE [p[k] EXCEPT !.wait = @ + run_time]]

\* run_proc variant: run_time is not clamped to the burst that is left.
run_proc_NoClamp(p, plen, cur, amount) ==
    IF DOMAIN p = {} \/ plen <= 0 THEN p
    ELSE IF cur < 0 \/ cur >= plen THEN p
    ELSE IF amount <= 0 THEN p
    ELSE LET available == p[cur].burst_left
         IN IF available <= 0 THEN p
            ELSE LET run_time == amount
                 IN [k \in DOMAIN p |->
                       IF k = cur
                       THEN [p[k] EXCEPT !.burst_left = @ - run_time]
                       ELSE IF p[k].burst_left > 0
                            THEN [p[k] EXCEPT !.wait = @ + run_time]
                            ELSE p[k]]

\* run_proc variant: the others wait for amount even when current is finished.
run_proc_WaitBeforeCheck(p, plen, cur, amount) ==
    IF DOMAIN p = {} \/ plen <= 0 THEN p
    ELSE IF cur < 0 \/ cur >= plen THEN p
    ELSE IF amount <= 0 THEN p
    ELSE LET available == p[cur].burst_left
             run_time == IF available <= 0 THEN amount
                         ELSE IF available < amount THEN available ELSE amount
         IN [k \in DOMAIN p |->
               IF k = cur
               THEN IF available <= 0 THEN p[k]
                    ELSE [p[k] EXCEPT !.burst_left = @ - run_time]
               ELSE IF p[k].burst_left > 0
                    THEN [p[k] EXCEPT !.wait = @ + run_time]
                    ELSE p[k]]

\* run_proc variant: the guard on amount is missing.
run_proc_NoAmountGuard(p, plen, cur, amount) ==
    IF DOMAIN p = {} \/ plen <= 0 THEN p
    ELSE IF cur < 0 \/ cur >= plen THEN p
    ELSE LET available == p[cur].burst_left
         IN IF available <= 0 THEN p
            ELSE LET run_time == IF available < amount THEN available ELSE amount
                 IN [k \in DOMAIN p |->
                       IF k = cur
                       THEN [p[k] EXCEPT !.burst_left = @ - run_time]
                       ELSE IF p[k].burst_left > 0
                            THEN [p[k] EXCEPT !.wait = @ + run_time]
                            ELSE p[k]]

\* run_proc variant: the wait loop does not skip current.
run_proc_NoSkipCurrent(p, plen, cur, amount) ==
    IF DOMAIN p = {} \/ plen <= 0 THEN p
    ELSE IF cur < 0 \/ cur >= plen THEN p
    ELSE IF amount <= 0 THEN p
    ELSE LET available == p[cur].burst_left
         IN IF available <= 0 THEN p
            ELSE LET run_time == IF available < amount THEN available ELSE amount
                 IN [k \in DOMAIN p |->
                       IF k = cur
                       THEN [p[k] EXCEPT !.burst_left = @ - run_time,
                                         !.wait = IF p[k].burst_left - run_time > 0
                                                  THEN @ + run_time ELSE @]
                       ELSE IF p[k].burst_left > 0
                            THEN [p[k] EXCEPT !.wait = @ + run_time]
                            ELSE p[k]]

\* run_proc variant: the burst of current is not reduced.
run_proc_NoDecrement(p, plen, cur, amount) ==
    IF DOMAIN p = {} \/ plen <= 0 THEN p
    ELSE IF cur < 0 \/ cur >= plen THEN p
    ELSE IF amount <= 0 THEN p
    ELSE LET available == p[cur].burst_left
         IN IF available <= 0 THEN p
            ELSE LET run_time == IF available < amount THEN available ELSE amount
                 IN [k \in DOMAIN p |->
                       IF k = cur
                       THEN p[k]
                       ELSE IF p[k].burst_left > 0
                            THEN [p[k] EXCEPT !.wait = @ + run_time]
                            ELSE p[k]]

run_proc(p, plen, cur, amount) ==
    IF DOMAIN p = {} \/ plen <= 0 THEN p
    ELSE IF cur < 0 \/ cur >= plen THEN p
    ELSE IF amount <= 0 THEN p
    ELSE LET available == p[cur].burst_left
         IN IF available <= 0 THEN p
            ELSE LET run_time == IF available < amount THEN available ELSE amount
                 IN [k \in DOMAIN p |->
                       IF k = cur
                       THEN [p[k] EXCEPT !.burst_left = @ - run_time]
                       ELSE IF p[k].burst_left > 0
                            THEN [p[k] EXCEPT !.wait = @ + run_time]
                            ELSE p[k]]

\* FcfsBody variant: a process with one unit left is skipped.
FcfsBody_SkipShort(p, plen, idx, total) ==
    LET remaining == p[idx].burst_left
    IN IF remaining <= 1
       THEN [procs |-> p, total |-> total, ran |-> FALSE, amount |-> 0]
       ELSE [procs |-> run_proc(p, plen, idx, remaining),
             total |-> total + remaining, ran |-> TRUE, amount |-> remaining]

\* FcfsBody variant: total_time grows by the burst read after the run.
FcfsBody_AddAfter(p, plen, idx, total) ==
    LET remaining == p[idx].burst_left
        p2 == run_proc(p, plen, idx, remaining)
    IN IF remaining <= 0
       THEN [procs |-> p, total |-> total, ran |-> FALSE, amount |-> 0]
       ELSE [procs |-> p2, total |-> total + p2[idx].burst_left,
             ran |-> TRUE, amount |-> remaining]

\* One iteration of the for loop of fcfs_run, at index idx.
FcfsBody(p, plen, idx, total) ==
    LET remaining == p[idx].burst_left
    IN IF remaining <= 0
       THEN [procs |-> p, total |-> total, ran |-> FALSE, amount |-> 0]
       ELSE [procs |-> run_proc(p, plen, idx, remaining),
             total |-> total + remaining, ran |-> TRUE, amount |-> remaining]

RECURSIVE FcfsLoop(_, _, _, _)
FcfsLoop(p, plen, idx, total) ==
    IF idx >= plen THEN [procs |-> p, ret |-> total]
    ELSE LET b == FcfsBody(p, plen, idx, total)
         IN FcfsLoop(b.procs, plen, idx + 1, b.total)

fcfs_run(p, plen) ==
    IF DOMAIN p = {} \/ plen <= 0 THEN [procs |-> p, ret |-> 0]
    ELSE FcfsLoop(p, plen, 0, 0)

\* HasWork variant: the scan starts at index 1.
HasWork_SkipFirst(p, plen) == \E k \in 1..(plen - 1) : p[k].burst_left > 0

HasWork(p, plen) == \E k \in 0..(plen - 1) : p[k].burst_left > 0

RECURSIVE RrScan_AcceptZero(_, _, _, _)
\* RrScan variant: the test is burst_left >= 0.
RrScan_AcceptZero(p, plen, start, offset) ==
    IF offset >= plen THEN 0 - 1
    ELSE LET idx == CRem(start + offset, plen)
         IN IF p[idx].burst_left >= 0 THEN idx
            ELSE RrScan_AcceptZero(p, plen, start, offset + 1)

RECURSIVE RrScan_ShortByOne(_, _, _, _)
\* RrScan variant: the scan probes plen - 1 entries.
RrScan_ShortByOne(p, plen, start, offset) ==
    IF offset >= plen - 1 THEN 0 - 1
    ELSE LET idx == CRem(start + offset, plen)
         IN IF p[idx].burst_left > 0 THEN idx
            ELSE RrScan_ShortByOne(p, plen, start, offset + 1)

RECURSIVE RrScan(_, _, _, _)
\* The circular scan of rr_next from offset on.
RrScan(p, plen, start, offset) ==
    IF offset >= plen THEN 0 - 1
    ELSE LET idx == CRem(start + offset, plen)
         IN IF p[idx].burst_left > 0 THEN idx
            ELSE RrScan(p, plen, start, offset + 1)

\* rr_next variant: the scan starts at current + 2.
rr_next_SkipOne(cur, p, plen) ==
    IF DOMAIN p = {} \/ plen <= 0 THEN 0 - 1
    ELSE IF ~HasWork(p, plen) THEN 0 - 1
    ELSE RrScan(p, plen, CRem(cur + 2, plen), 0)

rr_next(cur, p, plen) ==
    IF DOMAIN p = {} \/ plen <= 0 THEN 0 - 1
    ELSE IF ~HasWork(p, plen) THEN 0 - 1
    ELSE RrScan(p, plen, CRem(cur + 1, plen), 0)

RECURSIVE FirstWithWork_Last(_, _, _)
\* FirstWithWork variant: the loop has no break, the last index with work wins.
FirstWithWork_Last(p, plen, idx) ==
    IF idx >= plen THEN 0 - 1
    ELSE LET later == FirstWithWork_Last(p, plen, idx + 1)
         IN IF later /= 0 - 1 THEN later
            ELSE IF p[idx].burst_left > 0 THEN idx ELSE 0 - 1

RECURSIVE FirstWithWork(_, _, _)
\* The first loop of rr_run: the lowest index with work, or -1.
FirstWithWork(p, plen, idx) ==
    IF idx >= plen THEN 0 - 1
    ELSE IF p[idx].burst_left > 0 THEN idx
    ELSE FirstWithWork(p, plen, idx + 1)

\* RrBody variant: total_time grows by the quantum.
RrBody_TotalQuantum(p, plen, q, cur, total) ==
    LET remaining == p[cur].burst_left
        run_time == IF remaining < q THEN remaining ELSE q
        p2 == IF remaining > 0 THEN run_proc(p, plen, cur, run_time) ELSE p
        t2 == IF remaining > 0 THEN total + q ELSE total
    IN [procs |-> p2, total |-> t2, ran |-> remaining > 0,
        amount |-> run_time, next |-> rr_next(cur, p2, plen)]

\* RrBody variant: the slice is the larger of remaining and quantum.
RrBody_MaxSlice(p, plen, q, cur, total) ==
    LET remaining == p[cur].burst_left
        run_time == IF remaining < q THEN q ELSE remaining
        p2 == IF remaining > 0 THEN run_proc(p, plen, cur, run_time) ELSE p
        t2 == IF remaining > 0 THEN total + run_time ELSE total
    IN [procs |-> p2, total |-> t2, ran |-> remaining > 0,
        amount |-> run_time, next |-> rr_next(cur, p2, plen)]

\* One iteration of the while loop of rr_run.
RrBody(p, plen, q, cur, total) ==
    LET remaining == p[cur].burst_left
        run_time == IF remaining < q THEN remaining ELSE q
        p2 == IF remaining > 0 THEN run_proc(p, plen, cur, run_time) ELSE p
        t2 == IF remaining > 0 THEN total + run_time ELSE total
    IN [procs |-> p2, total |-> t2, ran |-> remaining > 0,
        amount |-> run_time, next |-> rr_next(cur, p2, plen)]

RECURSIVE RrLoop(_, _, _, _, _)
RrLoop(p, plen, q, cur, total) ==
    LET b == RrBody(p, plen, q, cur, total)
    IN IF b.next = 0 - 1 THEN [procs |-> b.procs, ret |-> b.total]
       ELSE RrLoop(b.procs, plen, q, b.next, b.total)

rr_run(p, plen, q) ==
    IF DOMAIN p = {} \/ plen <= 0 \/ q <= 0 THEN [procs |-> p, ret |-> 0]
    ELSE LET first == FirstWithWork(p, plen, 0)
         IN IF first = 0 - 1 THEN [procs |-> p, ret |-> 0]
            ELSE RrLoop(p, plen, q, first, 0)

\* ---- parta_main.c -----------------------------------------------------------
\* The average wait main prints with %.2f, in hundredths: sum_wait / plen
\* rounded to two decimals (an exact tie goes to the even digit).
AvgWaitCents(p, plen) ==
    LET sum_wait == SumTo(Waits(p), plen)
        n == 100 * sum_wait
        fl == n \div plen
        twice == 2 * (n % plen)
    IN IF plen <= 0 THEN 0
       ELSE IF twice < plen THEN fl
       ELSE IF twice > plen THEN fl + 1
       ELSE IF fl % 2 = 0 THEN fl ELSE fl + 1

\* ---- the state machine ----------------------------------------------------
PLen == Len0(bursts)

NoCall == [name |-> "none", current |-> 0, amount |-> 0, pre |-> NULL, ret |-> 0]

\* A slice: a run_proc call made by a driver.
Slice(p, cur, amount) == [pid |-> cur, amount |-> amount, left |-> p[cur].burst_left]

\* What main has reported: nothing yet.
NoOut == [status |-> 0 - 1, avg |-> 0 - 1]

Init ==
    /\ bursts \in BurstLists
    /\ alg \in Algs
    /\ quantum \in IF alg = "rr" THEN (0 - 1)..MaxQuantum ELSE {0}
    /\ procs = init_procs(bursts, Len0(bursts))
    /\ pc = IF alg = "fcfs" THEN "fcfs_loop"
            ELSE IF alg = "rr" THEN "rr_entry" ELSE "api"
    /\ i = 0
    /\ current = 0 - 1
    /\ total_time = 0
    /\ ret = 0 - 1
    /\ slices = << >>
    /\ call = NoCall
    /\ ncalls = 0
    /\ out = NoOut

\* fcfs_run: one iteration of the for loop.
FcfsStep ==
    /\ pc = "fcfs_loop"
    /\ i < PLen
    /\ LET b == FcfsBody(procs, PLen, i, total_time)
       IN /\ procs' = b.procs
          /\ total_time' = b.total
          /\ slices' = IF b.ran THEN Append(slices, Slice(b.procs, i, b.amount))
                       ELSE slices
    /\ i' = i + 1
    /\ UNCHANGED <<bursts, quantum, alg, pc, current, ret, call, ncalls, out>>

\* fcfs_run: the loop is over, return total_time.
FcfsReturn ==
    /\ pc = "fcfs_loop"
    /\ i >= PLen
    /\ ret' = total_time
    /\ pc' = "done"
    /\ UNCHANGED <<bursts, quantum, alg, procs, i, current, total_time, slices, call, ncalls, out>>

\* RrEntry variant: the guard on quantum is missing.
RrEntry_NoQuantumGuard ==
    /\ pc = "rr_entry"
    /\ IF DOMAIN procs = {} \/ PLen <= 0
       THEN /\ ret' = 0 /\ pc' = "done" /\ UNCHANGED current
       ELSE LET first == FirstWithWork(procs, PLen, 0)
            IN /\ current' = first
               /\ IF first = 0 - 1
                  THEN ret' = 0 /\ pc' = "done"
                  ELSE pc' = "rr_loop" /\ UNCHANGED ret
    /\ UNCHANGED <<bursts, quantum, alg, procs, i, total_time, slices, call, ncalls, out>>

\* rr_run: the guards and the search for the first process with work.
RrEntry ==
    /\ pc = "rr_entry"
    /\ IF DOMAIN procs = {} \/ PLen <= 0 \/ quantum <= 0
       THEN /\ ret' = 0 /\ pc' = "done" /\ UNCHANGED current
       ELSE LET first == FirstWithWork(procs, PLen, 0)
            IN /\ current' = first
               /\ IF first = 0 - 1
                  THEN ret' = 0 /\ pc' = "done"
                  ELSE pc' = "rr_loop" /\ UNCHANGED ret
    /\ UNCHANGED <<bursts, quantum, alg, procs, i, total_time, slices, call, ncalls, out>>

\* rr_run: one iteration of the while loop.
RrStep ==
    /\ pc = "rr_loop"
    /\ LET b == RrBody(procs, PLen, quantum, current, total_time)
       IN /\ procs' = b.procs
          /\ total_time' = b.total
          /\ slices' = IF b.ran THEN Append(slices, Slice(b.procs, current, b.amount))
                       ELSE slices
          /\ IF b.next = 0 - 1
             THEN pc' = "rr_break" /\ UNCHANGED current
             ELSE current' = b.next /\ UNCHANGED pc
    /\ UNCHANGED <<bursts, quantum, alg, i, ret, call, ncalls, out>>

\* rr_run: after the break, return total_time.
RrReturn ==
    /\ pc = "rr_break"
    /\ ret' = total_time
    /\ pc' = "done"
    /\ UNCHANGED <<bursts, quantum, alg, procs, i, current, total_time, slices, call, ncalls, out>>

\* A direct call of run_proc, any current from -1 to plen and any amount from
\* -1 to MaxAmount.
RunProcCall ==
    /\ pc = "api"
    /\ ncalls < MaxCalls
    /\ ncalls' = ncalls + 1
    /\ \E cur \in (0 - 1)..PLen, amount \in (0 - 1)..MaxAmount :
          /\ procs' = run_proc(procs, PLen, cur, amount)
          /\ call' = [name |-> "run_proc", current |-> cur, amount |-> amount,
                      pre |-> procs, ret |-> 0]
    /\ UNCHANGED <<bursts, quantum, alg, pc, i, current, total_time, ret, slices, out>>

\* A direct call of rr_next, any current from -1 to plen.
RrNextCall ==
    /\ pc = "api"
    /\ ncalls < MaxCalls
    /\ ncalls' = ncalls + 1
    /\ \E cur \in (0 - 1)..PLen :
          call' = [name |-> "rr_next", current |-> cur, amount |-> 0,
                   pre |-> procs, ret |-> rr_next(cur, procs, PLen)]
    /\ UNCHANGED <<bursts, quantum, alg, procs, pc, i, current, total_time, ret, slices, out>>

\* main after the driver has returned: print the average wait, return 0.
MainReport ==
    /\ pc = "done"
    /\ alg \in {"fcfs", "rr"}
    /\ out' = [status |-> 0, avg |-> AvgWaitCents(procs, PLen)]
    /\ pc' = "exit"
    /\ UNCHANGED <<bursts, quantum, alg, procs, i, current, total_time, ret,
                   slices, call, ncalls>>

Next ==
    \/ FcfsStep
    \/ FcfsReturn
    \/ RrEntry
    \/ RrStep
    \/ RrReturn
    \/ MainReport
    \/ RunProcCall
    \/ RrNextCall

Spec == Init /\ [][Next]_vars

\* A run of the rr command alone. The program is one sequential thread that
\* runs until main returns, so an enabled step is eventually taken.
InitRr == Init /\ alg = "rr"

NextRr ==
    \/ RrEntry
    \/ RrStep
    \/ RrReturn
    \/ MainReport

RrFairSpec == InitRr /\ [][NextRr]_vars /\ WF_vars(NextRr)

TypeOK ==
    /\ alg \in Algs
    /\ pc \in {"fcfs_loop", "rr_entry", "rr_loop", "rr_break", "api", "done", "exit"}
    /\ DOMAIN procs = 0..(PLen - 1)

\* ---- properties -------------------------------------------------------------
Fresh == init_procs(bursts, PLen)
NonNeg(b) == \A k \in DOMAIN b : b[k] >= 0
AllPos(b) == \A k \in DOMAIN b : b[k] > 0
DriverDone == pc = "done" /\ (alg = "fcfs" \/ (alg = "rr" /\ quantum > 0))
ValidId(k) == k >= 0 /\ k < PLen
Tuple3(a, b, c) == [k \in 0..2 |-> IF k = 0 THEN a ELSE IF k = 1 THEN b ELSE c]

\* C1: once fcfs_run has returned, and once rr_run has returned for a
\* quantum > 0, on a table built from non-negative bursts, every record has
\* burst_left = 0.
C1_AllBurstsExhausted ==
    (DriverDone /\ NonNeg(bursts)) => \A k \in DOMAIN procs : procs[k].burst_left = 0

C1_Witness ==
    /\ DriverDone /\ alg = "rr" /\ NonNeg(bursts)
    /\ PLen = 3 /\ Len(slices) >= 4
    /\ \A k \in DOMAIN procs : procs[k].burst_left = 0

\* C2: the value a driver returns equals the value fcfs_run returns and the
\* value rr_run returns, for every positive quantum, on a fresh table of the
\* same bursts; for non-negative bursts it is the sum of the bursts.
C2_TotalsAgree ==
    DriverDone =>
        /\ ret = fcfs_run(Fresh, PLen).ret
        /\ \A q \in 1..MaxQuantum : ret = rr_run(Fresh, PLen, q).ret
        /\ NonNeg(bursts) => ret = SumBursts(bursts)

C2_Witness ==
    /\ DriverDone /\ alg = "rr" /\ NonNeg(bursts)
    /\ PLen >= 2 /\ ret = SumBursts(bursts) /\ ret >= 3

\* C3: after fcfs_run on a table whose bursts are all positive, wait[k] is
\* the sum of the bursts of processes 0..k-1; bursts [5, 3, 8] give waits
\* [0, 5, 8] and the average 4.33.
C3_FcfsWaits ==
    (pc = "done" /\ alg = "fcfs" /\ AllPos(bursts)) =>
        /\ \A k \in DOMAIN procs : procs[k].wait = SumTo(bursts, k)
        /\ bursts = Scenario12 =>
              /\ Waits(procs) = Tuple3(0, 5, 8)
              /\ AvgWaitCents(procs, PLen) = 433

C3_Witness ==
    /\ pc = "done" /\ alg = "fcfs" /\ bursts = Scenario12
    /\ Waits(procs) = Tuple3(0, 5, 8)

\* C4: with a quantum q > 0 that is at least every burst, rr_run gives each
\* process with a positive burst exactly one slice, in which it finishes,
\* the slices are in increasing id order, and every final wait equals the
\* final wait under fcfs_run on the same bursts.
C4_RrLargeQuantumIsFcfs ==
    (pc = "done" /\ alg = "rr" /\ quantum > 0
        /\ \A k \in DOMAIN bursts : quantum >= bursts[k]) =>
        /\ \A k \in DOMAIN bursts :
              Cardinality({j \in 1..Len(slices) : slices[j].pid = k})
                 = IF bursts[k] > 0 THEN 1 ELSE 0
        /\ \A j \in 1..Len(slices) :
              /\ slices[j].left = 0
              /\ slices[j].amount = bursts[slices[j].pid]
        /\ \A j, k \in 1..Len(slices) : j < k => slices[j].pid < slices[k].pid
        /\ Waits(procs) = Waits(fcfs_run(Fresh, PLen).procs)

C4_Witness ==
    /\ pc = "done" /\ alg = "rr" /\ quantum > 0
    /\ \A k \in DOMAIN bursts : quantum >= bursts[k]
    /\ PLen = 3 /\ Len(slices) = 3 /\ procs[2].wait >= 4

\* C5: rr_next never returns an id whose burst_left is 0, and on a table of
\* non-negative burst_left it returns -1 if and only if every record has
\* burst_left = 0.
C5_RrNextSound ==
    call.name = "rr_next" =>
        /\ call.ret /= 0 - 1 =>
              /\ ValidId(call.ret)
              /\ call.pre[call.ret].burst_left /= 0
        /\ NonNeg(BurstLeft(call.pre)) =>
              (call.ret = 0 - 1 <=> \A k \in DOMAIN call.pre : call.pre[k].burst_left = 0)

C5_Witness ==
    /\ call.name = "rr_next" /\ call.ret /= 0 - 1 /\ call.ret < call.current
    /\ \E k \in DOMAIN call.pre : call.pre[k].burst_left = 0
    /\ NonNeg(BurstLeft(call.pre))

\* C6: run_proc with a valid current, amount > 0 and burst_left[current] > 0
\* takes runTime = min(amount, burst_left[current]) from burst_left[current]
\* and changes no other burst_left; it adds runTime to the wait of every
\* other record with burst_left > 0; the wait of current and the records
\* without remaining burst are unchanged.
C6_RunProcEffect ==
    (/\ call.name = "run_proc" /\ ValidId(call.current) /\ call.amount > 0
     /\ call.pre[call.current].burst_left > 0) =>
        LET pre == call.pre
            cur == call.current
            runTime == IF call.amount < pre[cur].burst_left
                       THEN call.amount ELSE pre[cur].burst_left
        IN /\ procs[cur].burst_left = pre[cur].burst_left - runTime
           /\ procs[cur].wait = pre[cur].wait
           /\ \A j \in DOMAIN pre :
                 /\ procs[j].pid = pre[j].pid
                 /\ j /= cur => procs[j].burst_left = pre[j].burst_left
                 /\ (j /= cur /\ pre[j].burst_left > 0) =>
                       procs[j].wait = pre[j].wait + runTime
                 /\ (j /= cur /\ pre[j].burst_left <= 0) => procs[j] = pre[j]

C6_Witness ==
    /\ call.name = "run_proc" /\ ValidId(call.current)
    /\ call.amount > call.pre[call.current].burst_left
    /\ call.pre[call.current].burst_left > 1
    /\ \E j \in DOMAIN procs : j /= call.current /\ call.pre[j].burst_left = 0
    /\ \E j \in DOMAIN procs : j /= call.current /\ procs[j].wait > call.pre[j].wait

\* C7: run_proc with a current whose burst_left is 0 leaves the whole table
\* unchanged, for any amount and on every repetition.
C7_FinishedIsNoOp ==
    (/\ call.name = "run_proc" /\ ValidId(call.current)
     /\ call.pre[call.current].burst_left = 0) => procs = call.pre

C7_Witness ==
    /\ call.name = "run_proc" /\ ValidId(call.current) /\ call.amount > 0
    /\ call.pre[call.current].burst_left = 0
    /\ bursts[call.current] > 0
    /\ \E j \in DOMAIN procs : procs[j].burst_left > 0
    /\ procs = call.pre

\* C8: run_proc with current < 0 or current >= plen, or with amount <= 0,
\* leaves every record of the table unchanged.
C8_BadArgsAreNoOp ==
    (/\ call.name = "run_proc"
     /\ (call.current < 0 \/ call.current >= PLen \/ call.amount <= 0)) =>
        procs = call.pre

C8_Witness ==
    /\ call.name = "run_proc" /\ ValidId(call.current) /\ call.amount < 0
    /\ call.pre[call.current].burst_left > 0
    /\ \E j \in DOMAIN procs : j /= call.current /\ procs[j].burst_left > 0
    /\ procs = call.pre

Scenario2Slices ==
    << [pid |-> 0, amount |-> 4, left |-> 1],
       [pid |-> 1, amount |-> 3, left |-> 0],
       [pid |-> 2, amount |-> 4, left |-> 4],
       [pid |-> 0, amount |-> 1, left |-> 0],
       [pid |-> 2, amount |-> 4, left |-> 0] >>

\* C9: rr_run on bursts [5, 3, 8] with quantum 4 executes the slices P0 for 4
\* (1 left), P1 for 3 (done), P2 for 4 (4 left), P0 for 1 (done), P2 for 4
\* (done), in that order and no others, returns 16 and leaves the waits
\* [7, 4, 8], average 6.33.
C9_Scenario2 ==
    (alg = "rr" /\ bursts = Scenario12 /\ quantum = 4) =>
        /\ Len(slices) <= Len(Scenario2Slices)
        /\ slices = SubSeq(Scenario2Slices, 1, Len(slices))
        /\ pc = "done" =>
              /\ slices = Scenario2Slices
              /\ ret = 16
              /\ Waits(procs) = Tuple3(7, 4, 8)
              /\ AvgWaitCents(procs, PLen) = 633

C9_Witness ==
    /\ alg = "rr" /\ bursts = Scenario12 /\ quantum = 4 /\ pc = "done"
    /\ ret = 16 /\ Len(slices) = 5

\* C10: with a single process of positive burst, fcfs_run and rr_run with a
\* positive quantum finish with wait 0 (average 0.00); rr_run selects the
\* process as its own successor until its burst is exhausted.
C10_SingleProcess ==
    (PLen = 1 /\ bursts[0] > 0 /\ (alg = "fcfs" \/ (alg = "rr" /\ quantum > 0))) =>
        /\ procs[0].wait = 0
        /\ pc = "done" =>
              /\ procs[0].burst_left = 0
              /\ AvgWaitCents(procs, PLen) = 0
        /\ alg = "rr" =>
              /\ \A j \in 1..Len(slices) :
                    /\ slices[j].pid = 0
                    /\ slices[j].amount =
                          IF bursts[0] - quantum * (j - 1) < quantum
                          THEN bursts[0] - quantum * (j - 1) ELSE quantum
                    /\ slices[j].left = bursts[0] - quantum * (j - 1) - slices[j].amount
              /\ pc = "rr_loop" => (current = 0 /\ procs[0].burst_left > 0)
              /\ pc \in {"rr_break", "done"} => procs[0].burst_left = 0

C10_Witness ==
    /\ bursts = Scenario3 /\ alg = "rr" /\ quantum = 2 /\ pc = "done"
    /\ Len(slices) = 4 /\ procs[0].wait = 0 /\ procs[0].burst_left = 0

CeilDiv(a, b) == (a + b - 1) \div b

RECURSIVE SumCeil(_, _, _)
\* ceil(b[0] / q) + ... + ceil(b[n-1] / q), over the positive bursts
SumCeil(b, n, q) ==
    IF n <= 0 THEN 0
    ELSE SumCeil(b, n - 1, q) + (IF b[n - 1] > 0 THEN CeilDiv(b[n - 1], q) ELSE 0)

RrRun == alg = "rr" /\ quantum > 0

\* C11 as stated: on non-negative bursts with quantum > 0, rr_run makes at
\* most ceil(totalBurst / quantum) time-consuming run_proc calls.
C11_StepsAtMostCeilTotal ==
    (RrRun /\ NonNeg(bursts)) => Len(slices) <= CeilDiv(SumBursts(bursts), quantum)

\* C11 amended: on non-negative bursts with quantum > 0, rr_run makes at most
\* the sum over the processes of ceil(burst / quantum) time-consuming
\* run_proc calls, and exactly that many once it has returned.
C11_StepsAtMostSumOfCeils ==
    (RrRun /\ NonNeg(bursts)) =>
        /\ Len(slices) <= SumCeil(bursts, PLen, quantum)
        /\ pc \in {"rr_break", "done", "exit"} =>
              Len(slices) = SumCeil(bursts, PLen, quantum)

C11_Witness ==
    /\ RrRun /\ NonNeg(bursts) /\ pc = "done"
    /\ Len(slices) > CeilDiv(SumBursts(bursts), quantum)
    /\ Len(slices) = SumCeil(bursts, PLen, quantum)

\* C12: when some record has burst_left > 0, rr_next returns the first id
\* with burst_left > 0 in ascending circular order from (current + 1) mod
\* plen, within plen probes; it returns current itself exactly when current
\* is the only record with remaining burst.
C12_RrNextFirstCircular ==
    (call.name = "rr_next" /\ \E k \in DOMAIN call.pre : call.pre[k].burst_left > 0) =>
        LET pre == call.pre
            cur == call.current
            probe(d) == (cur + 1 + d) % PLen
        IN /\ \E d \in 0..(PLen - 1) :
                 /\ call.ret = probe(d)
                 /\ pre[probe(d)].burst_left > 0
                 /\ \A e \in 0..(d - 1) : pre[probe(e)].burst_left <= 0
           /\ ValidId(cur) =>
                 (call.ret = cur <=>
                     /\ pre[cur].burst_left > 0
                     /\ \A k \in DOMAIN pre : k /= cur => pre[k].burst_left <= 0)

C12_Witness ==
    /\ call.name = "rr_next" /\ PLen = 3
    /\ ValidId(call.current) /\ call.ret = call.current
    /\ call.pre[call.ret].burst_left > 0
    /\ ncalls = 2

SlicesOf(k) == {j \in 1..Len(slices) : slices[j].pid = k}

\* C13: fcfs_run runs the processes in strictly increasing id order, each
\* process with a positive burst exactly once and to completion in that one
\* step, skips the processes with zero burst, and makes at most plen steps.
C13_FcfsOrder ==
    alg = "fcfs" =>
        /\ Len(slices) <= PLen
        /\ \A j, k \in 1..Len(slices) : j < k => slices[j].pid < slices[k].pid
        /\ \A j \in 1..Len(slices) :
              /\ slices[j].pid < i
              /\ bursts[slices[j].pid] > 0
              /\ slices[j].amount = bursts[slices[j].pid]
              /\ slices[j].left = 0
        /\ \A k \in 0..(i - 1) :
              Cardinality(SlicesOf(k)) = IF bursts[k] > 0 THEN 1 ELSE 0
        /\ pc \in {"done", "exit"} => i = PLen

C13_Witness ==
    /\ alg = "fcfs" /\ pc = "done" /\ PLen = 3
    /\ bursts[0] > 0 /\ bursts[1] = 0 /\ bursts[2] > 0
    /\ Len(slices) = 2 /\ slices[1].pid = 0 /\ slices[2].pid = 2

SumLeft(p) == SumTo(BurstLeft(p), Len0(p))

\* C14: rr_run with quantum > 0 terminates: every loop iteration that
\* performs a step strictly decreases the sum of all burst_left, rr_next
\* hands the loop a process that still has burst left as long as there is
\* one, and the loop exits when none is left (the sum is then 0 on
\* non-negative bursts), after which rr_run returns.
C14_RrTerminates ==
    /\ [][(RrRun /\ pc = "rr_loop" /\ Len(slices') > Len(slices)) =>
              SumLeft(procs') < SumLeft(procs)]_vars
    /\ [][(RrRun /\ pc = "rr_loop" /\ pc' = "rr_loop") =>
              (ValidId(current') /\ procs'[current'].burst_left > 0)]_vars
    /\ [][(RrRun /\ pc = "rr_loop" /\ pc' = "rr_break") =>
              /\ \A k \in DOMAIN procs' : procs'[k].burst_left <= 0
              /\ NonNeg(bursts) => SumLeft(procs') = 0]_vars
    /\ [][(RrRun /\ pc = "rr_loop" /\ HasWork(procs', PLen)) => pc' = "rr_loop"]_vars
    /\ (RrRun => <>(pc = "done"))

C14_Witness ==
    /\ RrRun /\ pc = "done" /\ NonNeg(bursts) /\ PLen >= 2 /\ quantum = 1
    /\ Len(slices) >= 4 /\ SumLeft(procs) = 0 /\ ret = total_time

\* C15: in a run started from non-negative bursts, under fcfs_run, rr_run or
\* any sequence of run_proc calls, every burst_left is >= 0 and never larger
\* than it was, every wait is >= 0 and never smaller than it was, and every
\* pid equals its index.
C15_TableInvariant ==
    /\ [](\A k \in DOMAIN procs : procs[k].pid = k)
    /\ [](NonNeg(bursts) =>
             \A k \in DOMAIN procs : procs[k].burst_left >= 0 /\ procs[k].wait >= 0)
    /\ [][NonNeg(bursts) =>
             \A k \in DOMAIN procs :
                /\ procs'[k].burst_left <= procs[k].burst_left
                /\ procs'[k].wait >= procs[k].wait
                /\ procs'[k].pid = procs[k].pid]_vars

C15_Witness ==
    /\ NonNeg(bursts) /\ call.name = "run_proc" /\ ncalls = 2 /\ PLen = 3
    /\ \A k \in DOMAIN procs : procs[k].burst_left < bursts[k] \/ procs[k].wait > 2
    /\ \E k \in DOMAIN procs : procs[k].burst_left = 0 /\ procs[k].wait > 0

RECURSIVE RanUpTo(_, _)
\* The time process m has received in slices 1..j.
RanUpTo(m, j) ==
    IF j <= 0 THEN 0
    ELSE RanUpTo(m, j - 1) + (IF slices[j].pid = m THEN slices[j].amount ELSE 0)

\* The burst process m has left after slice j.
LeftAfter(m, j) == bursts[m] - RanUpTo(m, j)

\* C16: in rr_run with quantum > 0 the first slice goes to the lowest id with
\* burst_left > 0 (with none, rr_run returns 0 and the table is unchanged);
\* each slice lasts min(quantum, burst_left) of the running process; the
\* slices follow ascending circular id order over the unfinished processes,
\* so between two consecutive slices of one process every other process that
\* is still unfinished receives exactly one slice.
C16_RrSliceOrder ==
    RrRun =>
        /\ (\A k \in DOMAIN bursts : bursts[k] <= 0) =>
              /\ slices = << >> /\ procs = Fresh
              /\ pc \in {"rr_entry", "done", "exit"}
              /\ pc /= "rr_entry" => ret = 0
        /\ Len(slices) >= 1 =>
              /\ bursts[slices[1].pid] > 0
              /\ \A k \in 0..(slices[1].pid - 1) : bursts[k] <= 0
        /\ (pc \in {"rr_break", "done", "exit"} /\ \E k \in DOMAIN bursts : bursts[k] > 0) =>
              Len(slices) >= 1
        /\ (pc = "rr_loop" /\ slices = << >>) =>
              /\ ValidId(current) /\ bursts[current] > 0
              /\ \A k \in 0..(current - 1) : bursts[k] <= 0
        /\ \A j \in 1..Len(slices) :
              LET before == LeftAfter(slices[j].pid, j - 1)
              IN /\ before > 0
                 /\ slices[j].amount = IF before < quantum THEN before ELSE quantum
                 /\ slices[j].left = before - slices[j].amount
        /\ \A j \in 1..(Len(slices) - 1) :
              \E d \in 1..PLen :
                 /\ slices[j + 1].pid = (slices[j].pid + d) % PLen
                 /\ \A e \in 1..(d - 1) : LeftAfter((slices[j].pid + e) % PLen, j) <= 0
        /\ \A j, k \in 1..Len(slices) :
              (/\ j < k /\ slices[j].pid = slices[k].pid
               /\ \A x \in (j + 1)..(k - 1) : slices[x].pid /= slices[j].pid) =>
                 \A m \in DOMAIN bursts \ {slices[j].pid} :
                    Cardinality({x \in (j + 1)..(k - 1) : slices[x].pid = m})
                       = IF LeftAfter(m, j) > 0 THEN 1 ELSE 0

C16_Witness ==
    /\ RrRun /\ pc = "done" /\ quantum = 1 /\ PLen = 3
    /\ bursts[0] = 0 /\ bursts[1] = 2 /\ bursts[2] = 1
    /\ Len(slices) = 3 /\ slices[1].pid = 1 /\ slices[2].pid = 2 /\ slices[3].pid = 1

\* C17: between the steps of fcfs_run and of rr_run, the driver's total_time
\* plus the sum of all burst_left equals the sum of the original bursts.
C17_TimeConservation ==
    alg \in {"fcfs", "rr"} => total_time + SumLeft(procs) = SumBursts(bursts)

C17_Witness ==
    /\ alg = "rr" /\ quantum > 0 /\ NonNeg(bursts) /\ pc = "rr_loop"
    /\ total_time >= 2 /\ SumLeft(procs) >= 2 /\ Len(slices) >= 2

RECURSIVE Elapsed(_)
\* The time elapsed at the end of slice j.
Elapsed(j) == IF j <= 0 THEN 0 ELSE Elapsed(j - 1) + slices[j].amount

\* C18: when a driver has returned (quantum > 0 for rr_run), the wait of
\* every process with a positive original burst is the elapsed time at the
\* end of the slice in which it finishes minus its original burst; a process
\* with original burst 0 has wait 0; so wait[k] <= total elapsed time -
\* burst[k] for every k.
C18_WaitIsCompletionMinusBurst ==
    DriverDone =>
        \A k \in DOMAIN procs :
           /\ bursts[k] > 0 =>
                 \E j \in 1..Len(slices) :
                    /\ slices[j].pid = k /\ slices[j].left = 0
                    /\ procs[k].wait = Elapsed(j) - bursts[k]
           /\ bursts[k] <= 0 => procs[k].wait = 0
           /\ procs[k].wait <= ret - bursts[k]

C18_Witness ==
    /\ DriverDone /\ alg = "rr" /\ PLen = 3 /\ NonNeg(bursts)
    /\ bursts[1] = 0 /\ procs[1].wait = 0
    /\ procs[0].wait >= 1 /\ procs[0].wait < ret - bursts[0]
    /\ procs[2].wait = ret - bursts[2]

\* C19: in every iteration of the loop of rr_run, current is in range and
\* burst_left[current] > 0, so every iteration performs a time-consuming
\* step; every run_proc call of rr_run and of fcfs_run has a current in
\* range with burst left and a positive amount, never a no-op.
C19_DriversNeverNoOp ==
    /\ [](pc = "rr_loop" => (ValidId(current) /\ procs[current].burst_left > 0))
    /\ [][pc = "rr_loop" =>
             /\ Len(slices') = Len(slices) + 1
             /\ total_time' > total_time]_vars
    /\ [][Len(slices') > Len(slices) =>
             LET sl == slices'[Len(slices')]
             IN /\ ValidId(sl.pid)
                /\ sl.amount > 0
                /\ procs[sl.pid].burst_left > 0
                /\ procs' /= procs
                /\ procs'[sl.pid].burst_left < procs[sl.pid].burst_left]_vars

C19_Witness ==
    /\ alg = "rr" /\ pc = "rr_loop" /\ PLen = 3 /\ Len(slices) >= 3
    /\ current = 1 /\ slices[Len(slices)].pid = 2
    /\ procs[0].burst_left = 0 /\ bursts[0] > 0
    /\ procs[1].burst_left > 0

\* C20: rr_run called with quantum <= 0 returns 0 without entering its loop
\* and leaves the table unchanged; the rr command with such a quantum then
\* exits with status 0 and reports the average wait 0.00, although the
\* bursts are not exhausted.
C20_NonPositiveQuantum ==
    (alg = "rr" /\ quantum <= 0) =>
        /\ pc \in {"rr_entry", "done", "exit"}
        /\ procs = Fresh /\ slices = << >> /\ total_time = 0
        /\ pc \in {"done", "exit"} => ret = 0
        /\ pc = "exit" => (out.status = 0 /\ out.avg = 0)

C20_Witness ==
    /\ alg = "rr" /\ quantum = 0 /\ pc = "exit" /\ bursts = Scenario12
    /\ ret = 0 /\ out.status = 0 /\ out.avg = 0
    /\ \A k \in DOMAIN procs : procs[k].burst_left = bursts[k]
====
